---- MODULE Spec2Model ----
(***************************************************************************)
(* Model of controllers/reconcilers/grafana/http_route_reconciler.go:      *)
(* HttpRouteReconciler.Reconcile / reconcileIngress (convergence of the    *)
(* routing object through controllerutil.CreateOrUpdate, readiness policy, *)
(* stage result) and getHttpRouteAdminURL (the admin URL fallback chain).  *)
(*                                                                         *)
(* The source names one routing object with two identifiers, httpRoute and *)
(* ingress; the model treats them as the same object, the one handed to    *)
(* CreateOrUpdate and then to getHttpRouteAdminURL.                        *)
(***************************************************************************)
EXTENDS Integers, Sequences, FiniteSets, TLC

VARIABLES cr, store, gateway, pc, local, res, settled

vars == <<cr, store, gateway, pc, local, res, settled>>

(***************************************************************************)
(* Bounds                                                                  *)
(***************************************************************************)
NumProcs == 2
MaxLB == 2
MaxAddr == 2

Procs == 1..NumProcs

BoundedSeq(S, n) == UNION {[1..k -> S] : k \in 0..n}

(***************************************************************************)
(* Values                                                                  *)
(***************************************************************************)
NoError == "nil"
NilNamespace == "nil"
NoOwner == "none"
NoCondition == "absent"

CrName == "grafana"
CrNamespace == "monitoring"
OtherOwner == "other-controller"

OperatorStageResultSuccess == "success"
OperatorStageResultInProgress == "inProgress"
OperatorStageResultFailed == "failed"
NoStage == "none"

ErrNotReady == "ingress is not ready yet"
ErrIncomplete == "ingress spec is incomplete"
ErrMerge == "override is incompatible with the target schema"
ErrOwned == "object is already owned by another controller"
ErrGet == "get failed"
ErrWrite == "write failed"
ErrAlreadyExists == "already exists"
ErrConflict == "conflict"
ErrNotFound == "not found"

OperationResultNone == "unchanged"
OperationResultCreated == "created"
OperationResultUpdated == "updated"

(* entries of Status.LoadBalancer.Ingress *)
LBEntries ==
  { [Hostname |-> "",               IP |-> ""],
    [Hostname |-> "lb.example.com", IP |-> ""],
    [Hostname |-> "",               IP |-> "10.0.0.1"],
    [Hostname |-> "",               IP |-> "10.0.0.2"] }

LBStatuses == BoundedSeq(LBEntries, MaxLB)

(* the load-balancer statuses the external controller writes while the      *)
(* reconcile loop runs: none, an entry without address, an IP, a hostname   *)
ObservedLBStatuses ==
  { << >>,
    <<[Hostname |-> "", IP |-> ""]>>,
    <<[Hostname |-> "", IP |-> "10.0.0.1"]>>,
    <<[Hostname |-> "lb.example.com", IP |-> ""]>> }

(* values of Gateway.Status.Addresses *)
AddressValues == {"", "gw.example.com", "172.16.0.1"}

(* the ParentObject stored under GatewayKey, or its absence *)
NoGateway == [present |-> FALSE, Addresses |-> << >>]

Gateways == {NoGateway} \cup {[present |-> TRUE, Addresses |-> a] : a \in BoundedSeq(AddressValues, MaxAddr)}

(* the ParentObject states met while the reconcile loop runs               *)
ObservedGateways ==
  { NoGateway,
    [present |-> TRUE, Addresses |-> << >>],
    [present |-> TRUE, Addresses |-> <<"gw.example.com">>] }

GatewayKey == [Namespace |-> "infra", Name |-> "gw"]

HostnameLists == {<< >>, <<"grafana.example.com">>}

ParentRefLists ==
  { << >>,
    <<[Namespace |-> "infra", Name |-> "gw"]>>,
    <<[Namespace |-> NilNamespace, Name |-> "gw"]>> }

(* cr.Spec.HttpRoute: nil, or an override fragment; ok = FALSE is a fragment *)
(* the target schema rejects                                               *)
NoRoute == [nil |-> TRUE, ok |-> TRUE, Hostnames |-> << >>, ParentRefs |-> << >>]

Overrides ==
  { [nil |-> FALSE, ok |-> TRUE, Hostnames |-> h, ParentRefs |-> p] :
      h \in HostnameLists, p \in ParentRefLists }
  \cup { [nil |-> FALSE, ok |-> FALSE, Hostnames |-> << >>, ParentRefs |-> << >>] }

CrLabels == {"team"}

(* the target port of a DesiredState: a positive integer or a non-empty     *)
(* name, in its integer and its string representation                      *)
TargetPorts ==
  { [IntVal |-> n, StrVal |-> ""] : n \in {1, 80, 3000, 8080, 65535} }
  \cup { [IntVal |-> 0, StrVal |-> s] : s \in {"http", "web", "grafana"} }

(* the target port of the descriptor the reconciler is run on              *)
CrPort == [IntVal |-> 3000, StrVal |-> ""]

EmptySpec == [Rules |-> << >>, Hostnames |-> << >>, ParentRefs |-> << >>]

EmptyStatus == [LoadBalancer |-> << >>]

NoObject ==
  [ Namespace |-> "", Name |-> "", Spec |-> EmptySpec, OwnerRef |-> NoOwner,
    Labels |-> {}, Status |-> EmptyStatus ]

(***************************************************************************)
(* Spec Builder                                                            *)
(***************************************************************************)
(* the integer representation of the descriptor's target port             *)
GetGrafanaPort(d) == d.Port.IntVal

GetHttpRouteTargetPort(d) == [IntVal |-> GetGrafanaPort(d), StrVal |-> ""]

(* the backend port is a PortNumber made of port.IntValue(): it carries a   *)
(* number and has no place for a name                                      *)
getHttpRouteSpec(d) ==
  LET port == GetHttpRouteTargetPort(d)
  IN [ Rules |-> << [ BackendRefs |-> << [ Name |-> d.Name \o "-service",
                                           Namespace |-> d.Namespace,
                                           Port |-> [Number |-> port.IntVal, Name |-> ""] ] >>,
                      Matches |-> << [ Type |-> "PathPrefix", Value |-> "/" ] >> ] >>,
       Hostnames |-> << >>,
       ParentRefs |-> << >> ]

(***************************************************************************)
(* Merge/Override Validator                                                *)
(***************************************************************************)
Merge(obj, override) ==
  IF ~override.ok
    THEN [err |-> ErrMerge, obj |-> obj]
    ELSE [err |-> NoError,
          obj |-> [obj EXCEPT
                     !.Spec.Hostnames = IF override.Hostnames # << >> THEN override.Hostnames ELSE @,
                     !.Spec.ParentRefs = IF override.ParentRefs # << >> THEN override.ParentRefs ELSE @]]

(***************************************************************************)
(* Endpoint Resolver                                                       *)
(***************************************************************************)
(* r.client.Get(ctx, gwnn, gw): fails on a store fault or when no Gateway   *)
(* is stored under the key                                                 *)
GatewayGet(gw, gwnn, fault) ==
  IF fault \/ ~gw.present \/ gwnn # GatewayKey
    THEN [err |-> ErrGet, Addresses |-> << >>]
    ELSE [err |-> NoError, Addresses |-> gw.Addresses]

(* the address scan without the break: the last non-empty value is kept    *)
RECURSIVE FirstAddress_NoBreak(_, _)
FirstAddress_NoBreak(addrs, i) ==
  IF i > Len(addrs) THEN ""
  ELSE IF FirstAddress_NoBreak(addrs, i + 1) # "" THEN FirstAddress_NoBreak(addrs, i + 1)
  ELSE addrs[i]

(* for _, address := range gw.Status.Addresses { if Value != "" ... break } *)
RECURSIVE FirstAddress(_, _)
FirstAddress(addrs, i) ==
  IF i > Len(addrs) THEN ""
  ELSE IF addrs[i] # "" THEN addrs[i]
  ELSE FirstAddress(addrs, i + 1)

(* the scan stopping at the first entry that has a hostname or an IP        *)
RECURSIVE ScanLoadBalancer_FirstFound(_, _, _)
ScanLoadBalancer_FirstFound(lbs, i, loadBalancerIP) ==
  IF i > Len(lbs) THEN [hostname |-> "", loadBalancerIP |-> loadBalancerIP]
  ELSE IF lbs[i].Hostname # "" THEN [hostname |-> lbs[i].Hostname, loadBalancerIP |-> loadBalancerIP]
  ELSE IF lbs[i].IP # "" THEN [hostname |-> "", loadBalancerIP |-> lbs[i].IP]
  ELSE ScanLoadBalancer_FirstFound(lbs, i + 1, loadBalancerIP)

(* for _, lb := range Status.LoadBalancer.Ingress: the state of the loop is *)
(* the pair (hostname, loadBalancerIP)                                     *)
RECURSIVE ScanLoadBalancer(_, _, _)
ScanLoadBalancer(lbs, i, loadBalancerIP) ==
  IF i > Len(lbs) THEN [hostname |-> "", loadBalancerIP |-> loadBalancerIP]
  ELSE IF lbs[i].Hostname # "" THEN [hostname |-> lbs[i].Hostname, loadBalancerIP |-> loadBalancerIP]
  ELSE ScanLoadBalancer(lbs, i + 1, IF lbs[i].IP # "" THEN lbs[i].IP ELSE loadBalancerIP)

FormatURL(protocol, hostname) == protocol \o "://" \o hostname

(* the resolver going on with the chain after a failed parent lookup        *)
getHttpRouteAdminURL_IgnoreFetchError(httpRoute, gw, fault) ==
  LET protocol == "http"
      hostname0 == IF Len(httpRoute.Spec.Hostnames) > 0 THEN httpRoute.Spec.Hostnames[1] ELSE ""
      hasParent == Len(httpRoute.Spec.ParentRefs) > 0
      pr == httpRoute.Spec.ParentRefs[1]
      fetched == IF hasParent
                   THEN GatewayGet(gw, [Namespace |-> pr.Namespace, Name |-> pr.Name], fault)
                   ELSE [err |-> NoError, Addresses |-> << >>]
      loadBalanceIP == FirstAddress(fetched.Addresses, 1)
      hostname1 == IF hostname0 = "" /\ loadBalanceIP # "" THEN loadBalanceIP ELSE hostname0
      scan == ScanLoadBalancer(httpRoute.Status.LoadBalancer, 1, "")
      hostname2 == IF hostname1 # "" THEN hostname1
                   ELSE IF scan.hostname # "" THEN scan.hostname
                   ELSE IF scan.loadBalancerIP # "" THEN scan.loadBalancerIP
                   ELSE ""
  IN IF hasParent /\ pr.Namespace = NilNamespace
       THEN [panicked |-> TRUE, fetchErr |-> NoError, url |-> ""]
     ELSE [panicked |-> FALSE, fetchErr |-> fetched.err,
           url |-> IF hostname2 # "" THEN FormatURL(protocol, hostname2) ELSE ""]

(* the resolver composing the URL without looking at hostname              *)
getHttpRouteAdminURL_AlwaysFormat(httpRoute, gw, fault) ==
  LET protocol == "http"
      hostname0 == IF Len(httpRoute.Spec.Hostnames) > 0 THEN httpRoute.Spec.Hostnames[1] ELSE ""
      hasParent == Len(httpRoute.Spec.ParentRefs) > 0
      pr == httpRoute.Spec.ParentRefs[1]
      fetched == IF hasParent
                   THEN GatewayGet(gw, [Namespace |-> pr.Namespace, Name |-> pr.Name], fault)
                   ELSE [err |-> NoError, Addresses |-> << >>]
      loadBalanceIP == FirstAddress(fetched.Addresses, 1)
      hostname1 == IF hostname0 = "" /\ loadBalanceIP # "" THEN loadBalanceIP ELSE hostname0
      scan == ScanLoadBalancer(httpRoute.Status.LoadBalancer, 1, "")
      hostname2 == IF hostname1 # "" THEN hostname1
                   ELSE IF scan.hostname # "" THEN scan.hostname
                   ELSE IF scan.loadBalancerIP # "" THEN scan.loadBalancerIP
                   ELSE ""
  IN IF hasParent /\ pr.Namespace = NilNamespace
       THEN [panicked |-> TRUE, fetchErr |-> NoError, url |-> ""]
     ELSE IF fetched.err # NoError
       THEN [panicked |-> FALSE, fetchErr |-> fetched.err, url |-> ""]
     ELSE [panicked |-> FALSE, fetchErr |-> NoError, url |-> FormatURL(protocol, hostname2)]

getHttpRouteAdminURL(httpRoute, gw, fault) ==
  LET protocol == "http"
      hostname0 == IF Len(httpRoute.Spec.Hostnames) > 0 THEN httpRoute.Spec.Hostnames[1] ELSE ""
      hasParent == Len(httpRoute.Spec.ParentRefs) > 0
      pr == httpRoute.Spec.ParentRefs[1]
      fetched == IF hasParent
                   THEN GatewayGet(gw, [Namespace |-> pr.Namespace, Name |-> pr.Name], fault)
                   ELSE [err |-> NoError, Addresses |-> << >>]
      loadBalanceIP == FirstAddress(fetched.Addresses, 1)
      hostname1 == IF hostname0 = "" /\ loadBalanceIP # "" THEN loadBalanceIP ELSE hostname0
      scan == ScanLoadBalancer(httpRoute.Status.LoadBalancer, 1, "")
      hostname2 == IF hostname1 # "" THEN hostname1
                   ELSE IF scan.hostname # "" THEN scan.hostname
                   ELSE IF scan.loadBalancerIP # "" THEN scan.loadBalancerIP
                   ELSE ""
  IN IF hasParent /\ pr.Namespace = NilNamespace
       THEN [panicked |-> TRUE, fetchErr |-> NoError, url |-> ""]
     ELSE IF fetched.err # NoError
       THEN [panicked |-> FALSE, fetchErr |-> fetched.err, url |-> ""]
     ELSE [panicked |-> FALSE, fetchErr |-> NoError,
           url |-> IF hostname2 # "" THEN FormatURL(protocol, hostname2) ELSE ""]

(***************************************************************************)
(* Object store (client.Client)                                            *)
(***************************************************************************)
ObjectKey(o) == [Namespace |-> o.Namespace, Name |-> o.Name]

Lookup(st, key) == {o \in st : ObjectKey(o) = key}

ClientGet(st, key, fault) ==
  IF fault THEN [err |-> ErrGet, obj |-> NoObject]
  ELSE IF Lookup(st, key) = {} THEN [err |-> ErrNotFound, obj |-> NoObject]
  ELSE [err |-> NoError, obj |-> CHOOSE o \in Lookup(st, key) : TRUE]

(* Create that does not look for an object of the same identity            *)
ClientCreate_NoExistenceCheck(st, obj, fault) ==
  IF fault THEN [err |-> ErrWrite, store |-> st, obj |-> obj]
  ELSE LET created == [obj EXCEPT !.Status = EmptyStatus]
       IN [err |-> NoError, store |-> st \cup {created}, obj |-> created]

(* Create fails when an object with the same identity is stored; the status *)
(* sub-document of a created object starts empty                           *)
ClientCreate(st, obj, fault) ==
  IF fault THEN [err |-> ErrWrite, store |-> st, obj |-> obj]
  ELSE IF Lookup(st, ObjectKey(obj)) # {} THEN [err |-> ErrAlreadyExists, store |-> st, obj |-> obj]
  ELSE LET created == [obj EXCEPT !.Status = EmptyStatus]
       IN [err |-> NoError, store |-> st \cup {created}, obj |-> created]

(* Update replaces metadata and spec of the stored object, keeps its status *)
(* sub-document, and is refused when the stored object is no longer the one *)
(* that was read (resource version mismatch)                               *)
ClientUpdate(st, obj, existing, fault) ==
  IF fault THEN [err |-> ErrWrite, store |-> st, obj |-> obj]
  ELSE IF Lookup(st, ObjectKey(obj)) = {} THEN [err |-> ErrNotFound, store |-> st, obj |-> obj]
  ELSE IF existing \notin st THEN [err |-> ErrConflict, store |-> st, obj |-> obj]
  ELSE LET updated == [obj EXCEPT !.Status = existing.Status]
       IN [err |-> NoError, store |-> (st \ {existing}) \cup {updated}, obj |-> updated]

(***************************************************************************)
(* Convergence Engine                                                      *)
(***************************************************************************)
GetGrafanaHttpRoute(d) ==
  [ Namespace |-> d.Namespace, Name |-> d.Name \o "-httproute",
    Spec |-> EmptySpec, OwnerRef |-> NoOwner, Labels |-> {}, Status |-> EmptyStatus ]

SetControllerReference(d, obj) ==
  IF obj.OwnerRef \notin {NoOwner, d.Name}
    THEN [err |-> ErrOwned, obj |-> obj]
    ELSE [err |-> NoError, obj |-> [obj EXCEPT !.OwnerRef = d.Name]]

SetInheritedLabels(obj, labels) == [obj EXCEPT !.Labels = @ \cup labels]

(* mutate with the merge error recorded but not returned                    *)
mutate_SwallowMergeError(obj, d) ==
  LET built == [obj EXCEPT !.Spec = getHttpRouteSpec(d)]
      merged == Merge(built, d.Spec.HttpRoute)
      owned == SetControllerReference(d, merged.obj)
  IN IF merged.err # NoError
       THEN [err |-> NoError, obj |-> built, InvalidMerge |-> merged.err]
     ELSE IF owned.err # NoError
       THEN [err |-> owned.err, obj |-> merged.obj, InvalidMerge |-> NoCondition]
     ELSE [err |-> NoError, obj |-> SetInheritedLabels(owned.obj, d.Labels),
           InvalidMerge |-> NoCondition]

(* the mutate function handed to CreateOrUpdate; InvalidMerge is the value  *)
(* the descriptor's condition has when the function returns                *)
mutate(obj, d) ==
  LET built == [obj EXCEPT !.Spec = getHttpRouteSpec(d)]
      merged == Merge(built, d.Spec.HttpRoute)
      owned == SetControllerReference(d, merged.obj)
  IN IF merged.err # NoError
       THEN [err |-> merged.err, obj |-> built, InvalidMerge |-> merged.err]
     ELSE IF owned.err # NoError
       THEN [err |-> owned.err, obj |-> merged.obj, InvalidMerge |-> NoCondition]
     ELSE [err |-> NoError, obj |-> SetInheritedLabels(owned.obj, d.Labels),
           InvalidMerge |-> NoCondition]

(* CreateOrUpdate without the comparison of the mutated object with the one *)
(* that was read: every call on an existing object writes                  *)
CreateOrUpdate_AlwaysUpdate(st, got, d, fault) ==
  LET obj0 == IF got.err = NoError THEN got.obj ELSE GetGrafanaHttpRoute(d)
      m == mutate(obj0, d)
      c == ClientCreate(st, m.obj, fault)
      u == ClientUpdate(st, m.obj, got.obj, fault)
  IN IF got.err \notin {NoError, ErrNotFound}
       THEN [op |-> OperationResultNone, err |-> got.err, store |-> st, obj |-> obj0,
             InvalidMerge |-> d.Status.InvalidMerge, mutateCalled |-> FALSE]
     ELSE IF m.err # NoError
       THEN [op |-> OperationResultNone, err |-> m.err, store |-> st, obj |-> m.obj,
             InvalidMerge |-> m.InvalidMerge, mutateCalled |-> TRUE]
     ELSE IF got.err = ErrNotFound
       THEN [op |-> IF c.err = NoError THEN OperationResultCreated ELSE OperationResultNone,
             err |-> c.err, store |-> c.store, obj |-> c.obj,
             InvalidMerge |-> m.InvalidMerge, mutateCalled |-> TRUE]
     ELSE [op |-> IF u.err = NoError THEN OperationResultUpdated ELSE OperationResultNone,
           err |-> u.err, store |-> u.store, obj |-> u.obj,
           InvalidMerge |-> m.InvalidMerge, mutateCalled |-> TRUE]

(* controllerutil.CreateOrUpdate after its Get returned got                 *)
CreateOrUpdate(st, got, d, fault) ==
  LET obj0 == IF got.err = NoError THEN got.obj ELSE GetGrafanaHttpRoute(d)
      m == mutate(obj0, d)
      c == ClientCreate(st, m.obj, fault)
      u == ClientUpdate(st, m.obj, got.obj, fault)
  IN IF got.err \notin {NoError, ErrNotFound}
       THEN [op |-> OperationResultNone, err |-> got.err, store |-> st, obj |-> obj0,
             InvalidMerge |-> d.Status.InvalidMerge, mutateCalled |-> FALSE]
     ELSE IF m.err # NoError
       THEN [op |-> OperationResultNone, err |-> m.err, store |-> st, obj |-> m.obj,
             InvalidMerge |-> m.InvalidMerge, mutateCalled |-> TRUE]
     ELSE IF got.err = ErrNotFound
       THEN [op |-> IF c.err = NoError THEN OperationResultCreated ELSE OperationResultNone,
             err |-> c.err, store |-> c.store, obj |-> c.obj,
             InvalidMerge |-> m.InvalidMerge, mutateCalled |-> TRUE]
     ELSE IF m.obj = got.obj
       THEN [op |-> OperationResultNone, err |-> NoError, store |-> st, obj |-> m.obj,
             InvalidMerge |-> m.InvalidMerge, mutateCalled |-> TRUE]
     ELSE [op |-> IF u.err = NoError THEN OperationResultUpdated ELSE OperationResultNone,
           err |-> u.err, store |-> u.store, obj |-> u.obj,
           InvalidMerge |-> m.InvalidMerge, mutateCalled |-> TRUE]

PreferIngress(d) == d.PreferIngress

(***************************************************************************)
(* Reconcile: convergence, readiness policy and stage result               *)
(***************************************************************************)
(* the readiness policy returning no error value with InProgress           *)
adminURLStage_NilNotReady(lbs, adminURL) ==
  IF Len(lbs) = 0
    THEN [stage |-> OperatorStageResultInProgress, err |-> NoError, assign |-> FALSE]
  ELSE IF adminURL = ""
    THEN [stage |-> OperatorStageResultFailed, err |-> ErrIncomplete, assign |-> FALSE]
  ELSE [stage |-> OperatorStageResultSuccess, err |-> NoError, assign |-> TRUE]

(* the readiness policy reporting Success without assigning the URL        *)
adminURLStage_NoAssign(lbs, adminURL) ==
  IF Len(lbs) = 0
    THEN [stage |-> OperatorStageResultInProgress, err |-> ErrNotReady, assign |-> FALSE]
  ELSE IF adminURL = ""
    THEN [stage |-> OperatorStageResultFailed, err |-> ErrIncomplete, assign |-> FALSE]
  ELSE [stage |-> OperatorStageResultSuccess, err |-> NoError, assign |-> FALSE]

(* the readiness policy assigning the URL whatever the stage              *)
adminURLStage_AssignAlways(lbs, adminURL) ==
  IF Len(lbs) = 0
    THEN [stage |-> OperatorStageResultInProgress, err |-> ErrNotReady, assign |-> TRUE]
  ELSE IF adminURL = ""
    THEN [stage |-> OperatorStageResultFailed, err |-> ErrIncomplete, assign |-> TRUE]
  ELSE [stage |-> OperatorStageResultSuccess, err |-> NoError, assign |-> TRUE]

(* the readiness policy applied once the resolver has returned adminURL:    *)
(* the stage, the error, and whether cr.Status.AdminURL is assigned        *)
adminURLStage(lbs, adminURL) ==
  IF Len(lbs) = 0
    THEN [stage |-> OperatorStageResultInProgress, err |-> ErrNotReady, assign |-> FALSE]
  ELSE IF adminURL = ""
    THEN [stage |-> OperatorStageResultFailed, err |-> ErrIncomplete, assign |-> FALSE]
  ELSE [stage |-> OperatorStageResultSuccess, err |-> NoError, assign |-> TRUE]

(* reconcileIngress going on to endpoint resolution after a store error    *)
reconcileIngress_IgnoreStoreError(d, st, gw, got, writeFault, parentFault) ==
  LET cu == CreateOrUpdate(st, got, d, writeFault)
      d1 == [d EXCEPT !.Status.InvalidMerge = cu.InvalidMerge]
      rs == getHttpRouteAdminURL(cu.obj, gw, parentFault)
      base == [ cr |-> d1, store |-> cu.store, op |-> cu.op, convErr |-> cu.err,
                convRan |-> TRUE, mutateCalled |-> cu.mutateCalled, obj |-> cu.obj,
                resolverCalled |-> FALSE, url |-> "", fetchErr |-> NoError,
                panicked |-> FALSE, stage |-> NoStage, err |-> NoError ]
  IN IF ~PreferIngress(d)
       THEN [base EXCEPT !.stage = OperatorStageResultSuccess]
     ELSE IF rs.panicked
       THEN [base EXCEPT !.resolverCalled = TRUE, !.panicked = TRUE]
     ELSE LET ready == adminURLStage(cu.obj.Status.LoadBalancer, rs.url)
          IN [base EXCEPT !.resolverCalled = TRUE, !.url = rs.url, !.fetchErr = rs.fetchErr,
                          !.stage = ready.stage, !.err = ready.err,
                          !.cr.Status.AdminURL = IF ready.assign THEN rs.url ELSE @]

(* reconcileIngress from the point where the Get of CreateOrUpdate has      *)
(* returned got; writeFault and parentFault are the store faults met by the *)
(* write and by the parent lookup                                          *)
reconcileIngress(d, st, gw, got, writeFault, parentFault) ==
  LET cu == CreateOrUpdate(st, got, d, writeFault)
      d1 == [d EXCEPT !.Status.InvalidMerge = cu.InvalidMerge]
      rs == getHttpRouteAdminURL(cu.obj, gw, parentFault)
      base == [ cr |-> d1, store |-> cu.store, op |-> cu.op, convErr |-> cu.err,
                convRan |-> TRUE, mutateCalled |-> cu.mutateCalled, obj |-> cu.obj,
                resolverCalled |-> FALSE, url |-> "", fetchErr |-> NoError,
                panicked |-> FALSE, stage |-> NoStage, err |-> NoError ]
  IN IF cu.err # NoError
       THEN [base EXCEPT !.stage = OperatorStageResultFailed, !.err = cu.err]
     ELSE IF ~PreferIngress(d)
       THEN [base EXCEPT !.stage = OperatorStageResultSuccess]
     ELSE IF rs.panicked
       THEN [base EXCEPT !.resolverCalled = TRUE, !.panicked = TRUE]
     ELSE LET ready == adminURLStage(cu.obj.Status.LoadBalancer, rs.url)
          IN [base EXCEPT !.resolverCalled = TRUE, !.url = rs.url, !.fetchErr = rs.fetchErr,
                          !.stage = ready.stage, !.err = ready.err,
                          !.cr.Status.AdminURL = IF ready.assign THEN rs.url ELSE @]

(* the early return of reconcileIngress when no route is configured        *)
reconcileNoRoute(d, st) ==
  [ cr |-> d, store |-> st, op |-> OperationResultNone, convErr |-> NoError,
    convRan |-> FALSE, mutateCalled |-> FALSE, obj |-> NoObject,
    resolverCalled |-> FALSE, url |-> "", fetchErr |-> NoError,
    panicked |-> FALSE, stage |-> OperatorStageResultSuccess, err |-> NoError ]

(***************************************************************************)
(* State                                                                   *)
(*   cr       the descriptor handed to Reconcile (spec and status)         *)
(*   store    the routing objects held by the object store                 *)
(*   gateway  the ParentObject held by the object store                    *)
(*   pc       per reconciler: "idle", "got" (Get returned), "done"         *)
(*   local    per reconciler: what the Get of CreateOrUpdate returned      *)
(*   res      per reconciler: the outcome of its last call                 *)
(*   settled  a convergence ran to its end without a store error and       *)
(*            neither the descriptor nor the routing object changed since  *)
(***************************************************************************)
StoreErrors == {ErrGet, ErrWrite, ErrAlreadyExists, ErrConflict, ErrNotFound}

NoGot == [err |-> NoError, obj |-> NoObject]

NoOutcome ==
  [ cr |-> [ Name |-> CrName, Namespace |-> CrNamespace, Labels |-> CrLabels,
             Port |-> CrPort,
             Spec |-> [HttpRoute |-> NoRoute], PreferIngress |-> FALSE,
             Status |-> [AdminURL |-> "", InvalidMerge |-> NoCondition] ],
    store |-> {}, op |-> OperationResultNone, convErr |-> NoError,
    convRan |-> FALSE, mutateCalled |-> FALSE, obj |-> NoObject,
    resolverCalled |-> FALSE, url |-> "", fetchErr |-> NoError,
    panicked |-> FALSE, stage |-> NoStage, err |-> NoError ]

NoResult ==
  [ out |-> NoOutcome, crBefore |-> NoOutcome.cr, storeBefore |-> {},
    gateway |-> NoGateway, after |-> FALSE ]

Descriptors ==
  { [ Name |-> CrName, Namespace |-> CrNamespace, Labels |-> CrLabels,
      Port |-> CrPort,
      Spec |-> [HttpRoute |-> h], PreferIngress |-> b,
      Status |-> [AdminURL |-> "", InvalidMerge |-> NoCondition] ] :
      h \in {NoRoute} \cup Overrides, b \in BOOLEAN }

Init ==
  /\ cr \in Descriptors
  /\ store = {}
  /\ gateway = NoGateway
  /\ pc = [p \in Procs |-> "idle"]
  /\ local = [p \in Procs |-> NoGot]
  /\ res = [p \in Procs |-> NoResult]
  /\ settled = FALSE

AllIdle == \A p \in Procs : pc[p] = "idle"

RouteKey == ObjectKey(GetGrafanaHttpRoute(cr))

Result(out) ==
  [ out |-> out, crBefore |-> cr, storeBefore |-> store, gateway |-> gateway,
    after |-> settled ]

(* a return that also removes the ParentObject from the store              *)
Finish_DeletesParent(p, out) ==
  /\ cr' = out.cr
  /\ store' = out.store
  /\ pc' = [pc EXCEPT ![p] = "done"]
  /\ local' = [local EXCEPT ![p] = NoGot]
  /\ res' = [res EXCEPT ![p] = Result(out)]
  /\ gateway' = NoGateway

Finish(p, out) ==
  /\ cr' = out.cr
  /\ store' = out.store
  /\ pc' = [pc EXCEPT ![p] = "done"]
  /\ local' = [local EXCEPT ![p] = NoGot]
  /\ res' = [res EXCEPT ![p] = Result(out)]
  /\ UNCHANGED gateway

(* the worker the scheduler admits for the descriptor *)
Worker == CHOOSE p \in Procs : TRUE

(* Reconcile run to completion by that worker                              *)
Reconcile(p) ==
  /\ p = Worker
  /\ AllIdle
  /\ \E getFault, writeFault, parentFault \in BOOLEAN :
       \E got \in {ClientGet(store, RouteKey, getFault)} :
         \E out \in {IF cr.Spec.HttpRoute.nil
                       THEN reconcileNoRoute(cr, store)
                       ELSE reconcileIngress(cr, store, gateway, got, writeFault, parentFault)} :
           /\ Finish(p, out)
           /\ settled' = IF out.convRan THEN out.convErr \notin StoreErrors ELSE settled

(* the caller takes the stage result; the scheduler may invoke again        *)
Return(p) ==
  /\ pc[p] = "done"
  /\ pc' = [pc EXCEPT ![p] = "idle"]
  /\ res' = [res EXCEPT ![p] = NoResult]
  /\ UNCHANGED <<cr, store, gateway, local, settled>>

(***************************************************************************)
(* Environment: the user edits the descriptor, external controllers write   *)
(* the status of the routing object and the ParentObject, objects are       *)
(* deleted or created by others                                            *)
(***************************************************************************)
EditDescriptor ==
  /\ \E h \in {NoRoute} \cup Overrides, b \in BOOLEAN :
       /\ <<h, b>> # <<cr.Spec.HttpRoute, cr.PreferIngress>>
       /\ cr' = [cr EXCEPT !.Spec.HttpRoute = h, !.PreferIngress = b]
  /\ settled' = FALSE
  /\ UNCHANGED <<store, gateway, pc, local, res>>

UpdateLoadBalancerStatus ==
  /\ \E o \in store, lb \in ObservedLBStatuses :
       /\ lb # o.Status.LoadBalancer
       /\ store' = (store \ {o}) \cup {[o EXCEPT !.Status.LoadBalancer = lb]}
  /\ settled' = FALSE
  /\ UNCHANGED <<cr, gateway, pc, local, res>>

UpdateGateway ==
  /\ \E g \in ObservedGateways :
       /\ g # gateway
       /\ gateway' = g
  /\ UNCHANGED <<cr, store, pc, local, res, settled>>

DeleteRoutingObject ==
  /\ \E o \in store : store' = store \ {o}
  /\ settled' = FALSE
  /\ UNCHANGED <<cr, gateway, pc, local, res>>

(* another party creates an object under the routing object's identity      *)
ExternalCreate ==
  /\ \E owner \in {NoOwner, OtherOwner} :
       LET c == ClientCreate(store, [GetGrafanaHttpRoute(cr) EXCEPT !.OwnerRef = owner,
                                                                   !.Labels = {"external"}], FALSE)
       IN /\ c.err = NoError
          /\ store' = c.store
  /\ settled' = FALSE
  /\ UNCHANGED <<cr, gateway, pc, local, res>>

Next ==
  \/ \E p \in Procs : Reconcile(p)
  \/ \E p \in Procs : Return(p)
  \/ AllIdle /\ EditDescriptor
  \/ AllIdle /\ UpdateLoadBalancerStatus
  \/ AllIdle /\ UpdateGateway
  \/ AllIdle /\ DeleteRoutingObject
  \/ AllIdle /\ ExternalCreate

Spec == Init /\ [][Next]_vars

(***************************************************************************)
(* Interleaved reconciles: the Get of CreateOrUpdate and the rest of the    *)
(* call are separate steps, and several reconcilers work on the descriptor  *)
(***************************************************************************)
GetStep(p) ==
  /\ pc[p] = "idle"
  /\ IF cr.Spec.HttpRoute.nil
       THEN /\ Finish(p, reconcileNoRoute(cr, store))
       ELSE /\ \E getFault \in BOOLEAN :
                 local' = [local EXCEPT ![p] = ClientGet(store, RouteKey, getFault)]
            /\ pc' = [pc EXCEPT ![p] = "got"]
            /\ UNCHANGED <<cr, store, gateway, res>>
  /\ settled' = FALSE

ConvergeStep(p) ==
  /\ pc[p] = "got"
  /\ \E writeFault, parentFault \in BOOLEAN :
       Finish(p, reconcileIngress(cr, store, gateway, local[p], writeFault, parentFault))
  /\ settled' = FALSE

(* a finished call hands its result to the caller before anything else     *)
NoneDone == \A p \in Procs : pc[p] # "done"

NextConc ==
  \/ NoneDone /\ \E p \in Procs : GetStep(p)
  \/ NoneDone /\ \E p \in Procs : ConvergeStep(p)
  \/ \E p \in Procs : Return(p)
  \/ NoneDone /\ DeleteRoutingObject
  \/ NoneDone /\ ExternalCreate

SpecConc == Init /\ [][NextConc]_vars

(***************************************************************************)
(* The resolver on its own: a routing object and a ParentObject in any of   *)
(* the bounded states, and one call of getHttpRouteAdminURL                 *)
(***************************************************************************)
ResolverHostnames ==
  { << >>, <<"">>, <<"grafana.example.com">>, <<"grafana.example.com", "alt.example.com">> }

ResolverObjects ==
  { [GetGrafanaHttpRoute(NoOutcome.cr) EXCEPT
       !.Spec = [Rules |-> getHttpRouteSpec(NoOutcome.cr).Rules, Hostnames |-> h, ParentRefs |-> prs],
       !.OwnerRef = CrName,
       !.Status.LoadBalancer = lb] :
      h \in ResolverHostnames, prs \in ParentRefLists, lb \in LBStatuses }

InitResolve ==
  /\ cr = NoOutcome.cr
  /\ store \in {{o} : o \in ResolverObjects}
  /\ gateway \in Gateways
  /\ pc = [p \in Procs |-> "idle"]
  /\ local = [p \in Procs |-> NoGot]
  /\ res = [p \in Procs |-> NoResult]
  /\ settled = FALSE

ResolveAdminURL(p) ==
  /\ p = Worker
  /\ pc[p] = "idle"
  /\ \E o \in store, parentFault \in BOOLEAN :
       LET rs == getHttpRouteAdminURL(o, gateway, parentFault)
       IN res' = [res EXCEPT ![p] =
                    Result([NoOutcome EXCEPT !.cr = cr, !.store = store, !.obj = o,
                                             !.resolverCalled = TRUE, !.url = rs.url,
                                             !.fetchErr = rs.fetchErr,
                                             !.panicked = rs.panicked])]
  /\ pc' = [pc EXCEPT ![p] = "done"]
  /\ UNCHANGED <<cr, store, gateway, local, settled>>

NextResolve == \E p \in Procs : ResolveAdminURL(p)

SpecResolve == InitResolve /\ [][NextResolve]_vars

(***************************************************************************)
(* The Spec Builder on its own: a descriptor with any of the bounded target *)
(* ports, and one call of getHttpRouteSpec                                  *)
(***************************************************************************)
BuildDescriptors ==
  { [d EXCEPT !.Port = port] : d \in Descriptors, port \in TargetPorts }

InitBuild ==
  /\ cr \in BuildDescriptors
  /\ store = {}
  /\ gateway = NoGateway
  /\ pc = [p \in Procs |-> "idle"]
  /\ local = [p \in Procs |-> NoGot]
  /\ res = [p \in Procs |-> NoResult]
  /\ settled = FALSE

BuildSpec(p) ==
  /\ p = Worker
  /\ pc[p] = "idle"
  /\ res' = [res EXCEPT ![p] =
               Result([NoOutcome EXCEPT
                         !.cr = cr,
                         !.obj = [GetGrafanaHttpRoute(cr) EXCEPT !.Spec = getHttpRouteSpec(cr)]])]
  /\ pc' = [pc EXCEPT ![p] = "done"]
  /\ UNCHANGED <<cr, store, gateway, local, settled>>

NextBuild == \E p \in Procs : BuildSpec(p)

SpecBuild == InitBuild /\ [][NextBuild]_vars

(***************************************************************************)
(* The retry loop: a fixed descriptor in preferred mode with a mergeable    *)
(* route section, a ParentObject that is present, a store that does not     *)
(* fail, a caller that invokes Reconcile again after every return, and an   *)
(* external controller that may populate the load-balancer status once      *)
(***************************************************************************)
LiveDescriptors ==
  { d \in Descriptors : PreferIngress(d) /\ ~d.Spec.HttpRoute.nil /\ d.Spec.HttpRoute.ok }

Usable(lbs) == \E i \in 1..Len(lbs) : lbs[i].Hostname # "" \/ lbs[i].IP # ""

InitLive ==
  /\ cr \in LiveDescriptors
  /\ store = {}
  /\ gateway \in {g \in ObservedGateways : g.present}
  /\ pc = [p \in Procs |-> "idle"]
  /\ local = [p \in Procs |-> NoGot]
  /\ res = [p \in Procs |-> NoResult]
  /\ settled = FALSE

(* Reconcile run to completion against a store that does not fail          *)
LiveReconcile(p) ==
  /\ p = Worker
  /\ AllIdle
  /\ \E got \in {ClientGet(store, RouteKey, FALSE)} :
       \E out \in {IF cr.Spec.HttpRoute.nil
                     THEN reconcileNoRoute(cr, store)
                     ELSE reconcileIngress(cr, store, gateway, got, FALSE, FALSE)} :
         /\ Finish(p, out)
         /\ settled' = IF out.convRan THEN out.convErr \notin StoreErrors ELSE settled

PopulateLoadBalancer ==
  /\ \E o \in store, lb \in ObservedLBStatuses :
       /\ o.Status.LoadBalancer = << >>
       /\ Usable(lb)
       /\ store' = (store \ {o}) \cup {[o EXCEPT !.Status.LoadBalancer = lb]}
  /\ settled' = FALSE
  /\ UNCHANGED <<cr, gateway, pc, local, res>>

NextLive ==
  \/ \E p \in Procs : LiveReconcile(p)
  \/ \E p \in Procs : Return(p)
  \/ PopulateLoadBalancer

SpecLive ==
  /\ InitLive
  /\ [][NextLive]_vars
  /\ \A p \in Procs : WF_vars(LiveReconcile(p)) /\ WF_vars(Return(p))

(***************************************************************************)
(* Properties                                                              *)
(***************************************************************************)
Done(p) == pc[p] = "done"

(* a routing object as a successful convergence of descriptor d leaves it   *)
Converged(o, d) ==
  /\ o.OwnerRef = d.Name
  /\ d.Labels \subseteq o.Labels
  /\ o.Spec.Rules = getHttpRouteSpec(d).Rules

(* C1: when the override merge fails inside the mutate function, Reconcile  *)
(* returns Failed with the merge error, the InvalidMerge condition carries  *)
(* the error text, and the store is the same before and after the call.    *)
C1_MergeFailureLeavesStore ==
  \A p \in Procs :
    (Done(p) /\ res[p].out.mutateCalled /\ ~res[p].crBefore.Spec.HttpRoute.ok)
      => /\ res[p].out.stage = OperatorStageResultFailed
         /\ res[p].out.err = ErrMerge
         /\ cr.Status.InvalidMerge = ErrMerge
         /\ store = res[p].storeBefore

C1_Witness ==
  \E p \in Procs :
    /\ Done(p) /\ res[p].out.mutateCalled /\ ~res[p].crBefore.Spec.HttpRoute.ok
    /\ res[p].crBefore.Status.InvalidMerge = NoCondition
    /\ \E o \in store : Converged(o, cr) /\ o.Spec.Hostnames # << >>

(* C2: a convergence that follows a convergence which ran to its end, with  *)
(* descriptor and live object unchanged in between, reports no mutation and *)
(* leaves the stored object as the first one left it.                      *)
C2_ConvergeIdempotent ==
  \A p \in Procs :
    (Done(p) /\ res[p].out.convRan /\ res[p].after)
      => /\ res[p].out.op = OperationResultNone
         /\ store = res[p].storeBefore

C2_Witness ==
  \E p \in Procs :
    /\ Done(p) /\ res[p].out.convRan /\ res[p].after
    /\ res[p].out.convErr = NoError
    /\ \E o \in store : Converged(o, cr) /\ "external" \in o.Labels

(* C3: under any interleaving of reconciles the store holds at most one     *)
(* routing object per identity (namespace and name).                       *)
C3_OneObjectPerIdentity ==
  \A o1, o2 \in store : ObjectKey(o1) = ObjectKey(o2) => o1 = o2

C3_Witness ==
  \E p, q \in Procs :
    /\ p # q
    /\ Done(p) /\ res[p].out.convErr = ErrAlreadyExists
    /\ pc[q] = "got" /\ local[q].err = ErrNotFound
    /\ Cardinality(store) = 1

(* the call converged the routing object and went on to the admin URL with  *)
(* this exposure mode preferred                                            *)
ConvergedPreferred(p) ==
  /\ Done(p)
  /\ res[p].out.convRan
  /\ res[p].out.convErr = NoError
  /\ res[p].crBefore.PreferIngress

LBOf(p) == res[p].out.obj.Status.LoadBalancer

AdminURLUnchanged(p) == res[p].out.cr.Status.AdminURL = res[p].crBefore.Status.AdminURL

NoExplicitHostname(o) == Len(o.Spec.Hostnames) = 0 \/ o.Spec.Hostnames[1] = ""

NoAddress(gw) == \A i \in 1..Len(gw.Addresses) : gw.Addresses[i] = ""

(* C4: convergence succeeded, the mode is preferred and the load-balancer   *)
(* status list is empty: Reconcile returns InProgress with a non-empty      *)
(* error message and leaves AdminURL unchanged, for every routing object.  *)
C4_EmptyStatusInProgress ==
  \A p \in Procs :
    (ConvergedPreferred(p) /\ LBOf(p) = << >>)
      => /\ res[p].out.stage = OperatorStageResultInProgress
         /\ res[p].out.err \notin {NoError, ""}
         /\ AdminURLUnchanged(p)

(* C5 as stated: InProgress comes with a nil error, and a non-nil error     *)
(* comes only with Failed.                                                 *)
C5_InProgressNilError ==
  \A p \in Procs :
    Done(p) => /\ res[p].out.stage = OperatorStageResultInProgress => res[p].out.err = NoError
               /\ res[p].out.err # NoError => res[p].out.stage = OperatorStageResultFailed

(* C5 amended: InProgress is returned exactly for the empty load-balancer   *)
(* status in preferred mode and carries the not-ready error; a non-nil      *)
(* error comes only with Failed or InProgress; Success carries nil.        *)
C5_InProgressCarriesNotReady ==
  \A p \in Procs :
    Done(p) => /\ res[p].out.stage = OperatorStageResultInProgress
                    => /\ res[p].out.err = ErrNotReady
                       /\ ConvergedPreferred(p) /\ LBOf(p) = << >>
               /\ res[p].out.err # NoError
                    => res[p].out.stage \in {OperatorStageResultFailed, OperatorStageResultInProgress}
               /\ res[p].out.stage = OperatorStageResultSuccess => res[p].out.err = NoError

C5_Witness ==
  \E p \in Procs :
    /\ ConvergedPreferred(p) /\ LBOf(p) = << >>
    /\ res[p].out.stage = OperatorStageResultInProgress
    /\ res[p].out.err = ErrNotReady

(* C6: convergence succeeded, the mode is preferred, the load-balancer      *)
(* status list is non-empty and there is no usable host anywhere: Reconcile *)
(* returns Failed with a non-nil error and leaves AdminURL unchanged.      *)
C6_UnresolvableFailed ==
  \A p \in Procs :
    (/\ ConvergedPreferred(p)
     /\ LBOf(p) # << >>
     /\ NoExplicitHostname(res[p].out.obj)
     /\ NoAddress(res[p].gateway)
     /\ \A i \in 1..Len(LBOf(p)) : LBOf(p)[i].Hostname = "" /\ LBOf(p)[i].IP = "")
      => /\ res[p].out.stage = OperatorStageResultFailed
         /\ res[p].out.err # NoError
         /\ AdminURLUnchanged(p)

(* C7: convergence succeeded, the mode is preferred, the load-balancer      *)
(* status list is non-empty and the resolver returned a host: Reconcile     *)
(* returns Success with nil error and AdminURL is the resolver's URL; a     *)
(* list with the single entry IP 10.0.0.1 and no hostname or parent gives   *)
(* "http://10.0.0.1".                                                       *)
C7_ResolvedSuccess ==
  \A p \in Procs :
    /\ (/\ ConvergedPreferred(p) /\ LBOf(p) # << >>
        /\ res[p].out.resolverCalled /\ ~res[p].out.panicked /\ res[p].out.url # "")
         => /\ res[p].out.stage = OperatorStageResultSuccess
            /\ res[p].out.err = NoError
            /\ cr.Status.AdminURL = res[p].out.url
    /\ (/\ ConvergedPreferred(p)
        /\ LBOf(p) = <<[Hostname |-> "", IP |-> "10.0.0.1"]>>
        /\ res[p].out.obj.Spec.Hostnames = << >>
        /\ res[p].out.obj.Spec.ParentRefs = << >>)
         => /\ res[p].out.stage = OperatorStageResultSuccess
            /\ cr.Status.AdminURL = "http://10.0.0.1"

C7_Witness ==
  \E p \in Procs :
    /\ ConvergedPreferred(p)
    /\ LBOf(p) = <<[Hostname |-> "", IP |-> "10.0.0.1"]>>
    /\ res[p].out.obj.Spec.Hostnames = << >>
    /\ res[p].out.obj.Spec.ParentRefs = << >>
    /\ res[p].crBefore.Status.AdminURL = ""
    /\ cr.Status.AdminURL = "http://10.0.0.1"

(* C8: a routing object with an explicit hostname resolves to               *)
(* "http://<hostname>" whatever the parent references, the ParentObject,    *)
(* the load-balancer status and the outcome of the parent lookup.          *)
C8_ExplicitHostnameWins ==
  \A p \in Procs :
    (Done(p) /\ res[p].out.resolverCalled /\ ~NoExplicitHostname(res[p].out.obj))
      => /\ ~res[p].out.panicked
         /\ res[p].out.url = "http://" \o res[p].out.obj.Spec.Hostnames[1]

FirstHostname(lbs) ==
  lbs[CHOOSE i \in 1..Len(lbs) :
        /\ lbs[i].Hostname # ""
        /\ \A j \in 1..(i - 1) : lbs[j].Hostname = ""].Hostname

(* the resolver reached the scan of the load-balancer status: it returned,  *)
(* the parent lookup (if any) succeeded, and neither an explicit hostname   *)
(* nor a parent address was there                                          *)
ScanReached(p) ==
  /\ Done(p) /\ res[p].out.resolverCalled
  /\ ~res[p].out.panicked /\ res[p].out.fetchErr = NoError
  /\ NoExplicitHostname(res[p].out.obj)
  /\ (res[p].out.obj.Spec.ParentRefs = << >> \/ NoAddress(res[p].gateway))

(* C10: in the load-balancer scan, when some entry has a hostname, the host *)
(* is the first such hostname at whatever position; an IP in an earlier     *)
(* entry never wins.                                                       *)
C10_HostnameBeatsEarlierIP ==
  \A p \in Procs :
    (ScanReached(p) /\ \E i \in 1..Len(LBOf(p)) : LBOf(p)[i].Hostname # "")
      => res[p].out.url = "http://" \o FirstHostname(LBOf(p))

C10_Witness ==
  \E p \in Procs :
    /\ ScanReached(p)
    /\ LBOf(p) = <<[Hostname |-> "", IP |-> "10.0.0.1"], [Hostname |-> "lb.example.com", IP |-> ""]>>
    /\ res[p].out.url = "http://lb.example.com"

FirstIP(lbs) ==
  lbs[CHOOSE i \in 1..Len(lbs) :
        /\ lbs[i].IP # ""
        /\ \A j \in 1..(i - 1) : lbs[j].IP = ""].IP

(* C11: in the load-balancer scan, when no entry has a hostname, the host   *)
(* is the first non-empty IP in list order.                                *)
C11_FirstIPWins ==
  \A p \in Procs :
    (/\ ScanReached(p)
     /\ \A i \in 1..Len(LBOf(p)) : LBOf(p)[i].Hostname = ""
     /\ \E i \in 1..Len(LBOf(p)) : LBOf(p)[i].IP # "")
      => res[p].out.url = "http://" \o FirstIP(LBOf(p))

(* a non-empty list has a first non-empty value                            *)
FirstNonEmpty(addrs) ==
  addrs[CHOOSE i \in 1..Len(addrs) :
          /\ addrs[i] # ""
          /\ \A j \in 1..(i - 1) : addrs[j] = ""]

(* the resolver returned after a parent lookup that succeeded               *)
ParentFetched(p) ==
  /\ Done(p) /\ res[p].out.resolverCalled
  /\ ~res[p].out.panicked /\ res[p].out.fetchErr = NoError
  /\ res[p].out.obj.Spec.ParentRefs # << >>

(* C17: with no explicit hostname and a fetched parent whose address list   *)
(* has a non-empty value, the host is the first non-empty parent address,   *)
(* whatever the load-balancer status of the routing object carries; with an *)
(* explicit hostname and a fetched parent the explicit hostname is the host. *)
C17_ParentAddressBeforeLoadBalancer ==
  \A p \in Procs :
    /\ (ParentFetched(p) /\ NoExplicitHostname(res[p].out.obj) /\ ~NoAddress(res[p].gateway))
         => res[p].out.url = "http://" \o FirstNonEmpty(res[p].gateway.Addresses)
    /\ (ParentFetched(p) /\ ~NoExplicitHostname(res[p].out.obj))
         => res[p].out.url = "http://" \o res[p].out.obj.Spec.Hostnames[1]

C17_Witness ==
  \E p \in Procs :
    /\ ParentFetched(p) /\ NoExplicitHostname(res[p].out.obj)
    /\ res[p].gateway.Addresses = <<"", "gw.example.com">>
    /\ LBOf(p) = <<[Hostname |-> "", IP |-> "10.0.0.1"], [Hostname |-> "lb.example.com", IP |-> ""]>>
    /\ res[p].out.url = "http://gw.example.com"

(* C20: the resolver returns a URL for every routing object, also for one   *)
(* whose first parent reference has no namespace.                          *)
C20_ResolverTotal ==
  \A p \in Procs :
    (Done(p) /\ res[p].out.resolverCalled) => ~res[p].out.panicked

(* the hosts a URL can be made of                                          *)
Hosts ==
  { "grafana.example.com", "alt.example.com", "lb.example.com", "10.0.0.1", "10.0.0.2" }
  \cup (AddressValues \ {""})

WellFormedURL(u) == u = "" \/ \E h \in Hosts : u = "http://" \o h

(* C12: the resolver's URL is empty or "http://" followed by a non-empty    *)
(* host, never a host-less URL, and so is the AdminURL of the descriptor.   *)
C12_NoHostlessURL ==
  /\ WellFormedURL(cr.Status.AdminURL)
  /\ cr.Status.AdminURL # "http://"
  /\ \A p \in Procs :
       (Done(p) /\ res[p].out.resolverCalled)
         => WellFormedURL(res[p].out.url) /\ res[p].out.url # "http://"

C12_Witness ==
  \E p \in Procs :
    /\ ConvergedPreferred(p) /\ res[p].out.resolverCalled /\ ~res[p].out.panicked
    /\ res[p].out.fetchErr = NoError
    /\ LBOf(p) = <<[Hostname |-> "", IP |-> ""]>>
    /\ res[p].out.url = ""
    /\ res[p].out.stage = OperatorStageResultFailed

(* the override merge failed during the call whose result p holds          *)
MergeFailed(p) == res[p].out.mutateCalled /\ ~res[p].crBefore.Spec.HttpRoute.ok

(* C13: after a Reconcile call the descriptor carries the InvalidMerge       *)
(* condition if and only if the override merge failed during that call.     *)
C13_ConditionTracksLastMerge ==
  \A p \in Procs :
    Done(p) => (cr.Status.InvalidMerge # NoCondition <=> MergeFailed(p))

(* C14: a store error on the get or the write of the routing object aborts  *)
(* the call: stage Failed with that error, no endpoint resolution, no       *)
(* store change, AdminURL unchanged.                                        *)
C14_StoreErrorAborts ==
  \A p \in Procs :
    (Done(p) /\ res[p].out.convErr \in StoreErrors) =>
      /\ res[p].out.stage = OperatorStageResultFailed
      /\ res[p].out.err = res[p].out.convErr
      /\ ~res[p].out.resolverCalled
      /\ res[p].out.op = OperationResultNone
      /\ res[p].out.store = res[p].storeBefore
      /\ AdminURLUnchanged(p)

C14_Witness ==
  \E p \in Procs :
    /\ Done(p)
    /\ res[p].out.convErr = ErrWrite
    /\ res[p].out.mutateCalled
    /\ PreferIngress(res[p].crBefore)
    /\ res[p].out.stage = OperatorStageResultFailed

(* C19: AdminURL is written only by a call that returns Success in          *)
(* preferred mode with a route configured, and then to a non-empty URL;     *)
(* every other call leaves it as it was, and no call empties it.            *)
C19_AdminURLWrittenOnlyOnSuccess ==
  \A p \in Procs :
    Done(p) =>
      /\ ~AdminURLUnchanged(p) =>
           /\ res[p].out.stage = OperatorStageResultSuccess
           /\ PreferIngress(res[p].crBefore)
           /\ ~res[p].crBefore.Spec.HttpRoute.nil
           /\ res[p].out.cr.Status.AdminURL = res[p].out.url
           /\ res[p].out.url # ""
      /\ res[p].out.stage \in {OperatorStageResultInProgress, OperatorStageResultFailed}
           => AdminURLUnchanged(p)
      /\ ~PreferIngress(res[p].crBefore) => AdminURLUnchanged(p)
      /\ res[p].crBefore.Spec.HttpRoute.nil => AdminURLUnchanged(p)
      /\ res[p].crBefore.Status.AdminURL # "" => res[p].out.cr.Status.AdminURL # ""

C19_Witness ==
  \E p \in Procs :
    /\ Done(p)
    /\ PreferIngress(res[p].crBefore)
    /\ res[p].out.resolverCalled
    /\ res[p].out.stage = OperatorStageResultFailed
    /\ res[p].crBefore.Status.AdminURL # ""
    /\ res[p].out.cr.Status.AdminURL = res[p].crBefore.Status.AdminURL

(* the routing objects a call found stored under the key of o              *)
Before(p, o) == Lookup(res[p].storeBefore, ObjectKey(o))

(* C16: a Reconcile call leaves the ParentObject as it found it, removes no *)
(* routing object, writes only under the key of the routing object it owns, *)
(* and leaves the status sub-document of a stored object as it was (empty   *)
(* for an object the call created).                                        *)
C16_StatusAndParentOnlyRead ==
  \A p \in Procs :
    Done(p) =>
      /\ gateway = res[p].gateway
      /\ \A o \in res[p].storeBefore : Lookup(store, ObjectKey(o)) # {}
      /\ \A o \in store \ res[p].storeBefore :
           ObjectKey(o) = ObjectKey(GetGrafanaHttpRoute(res[p].crBefore))
      /\ \A o \in store :
           IF Before(p, o) = {}
             THEN o.Status = EmptyStatus
             ELSE \E b \in Before(p, o) : o.Status = b.Status

C16_Witness ==
  \E p \in Procs :
    /\ ParentFetched(p)
    /\ gateway.present
    /\ res[p].out.op = OperationResultUpdated
    /\ \E o \in store : o.Status.LoadBalancer # << >>

(* the only backend reference of the only rule of the object p built, if    *)
(* the builder emitted exactly one of each                                 *)
Built(p) == res[p].out.obj.Spec

OneRuleOneBackend(spec) ==
  /\ Len(spec.Rules) = 1
  /\ Len(spec.Rules[1].BackendRefs) = 1
  /\ spec.Rules[1].Matches = << [Type |-> "PathPrefix", Value |-> "/"] >>

NumericPort(port) == port.IntVal > 0 /\ port.StrVal = ""

NamedPort(port) == port.IntVal <= 0 /\ port.StrVal # ""

(* C15: for a descriptor whose target port is a positive integer or a name, *)
(* the builder emits one rule with one backend reference (service name,     *)
(* namespace, port) and one prefix match at "/", and the backend port has   *)
(* the form of the target port: its number for a numeric port, its name for *)
(* a named port.                                                            *)
C15_PortFormMatchesInput ==
  \A p \in Procs :
    (Done(p) /\ (NumericPort(res[p].crBefore.Port) \/ NamedPort(res[p].crBefore.Port))) =>
      /\ OneRuleOneBackend(Built(p))
      /\ LET d == res[p].crBefore
             b == Built(p).Rules[1].BackendRefs[1]
         IN /\ b.Name = d.Name \o "-service"
            /\ b.Namespace = d.Namespace
            /\ NumericPort(d.Port) => b.Port = [Number |-> d.Port.IntVal, Name |-> ""]
            /\ NamedPort(d.Port) => b.Port = [Number |-> 0, Name |-> d.Port.StrVal]

Populated == \E o \in store : Usable(o.Status.LoadBalancer)

SuccessWithURL ==
  \E p \in Procs :
    /\ Done(p)
    /\ res[p].out.stage = OperatorStageResultSuccess
    /\ res[p].out.url # ""
    /\ cr.Status.AdminURL = res[p].out.url

(* C18: with Reconcile invoked again after every return, a fixed descriptor *)
(* in preferred mode and no store errors, once the load-balancer status     *)
(* holds an entry with a hostname or an IP, eventually a Reconcile returns  *)
(* Success with AdminURL set to the resolved URL.                           *)
C18_PopulatedLeadsToSuccess == Populated ~> SuccessWithURL

====
